---- MODULE Spec2Model ----
(***************************************************************************)
(* Sources/CFFmpeg/include/shim.h: the umbrella header of the CFFmpeg      *)
(* module.  The header has no behaviour of its own beyond what the C       *)
(* preprocessor does with its lines, so the model is the preprocessor      *)
(* walking the header line by line each time a translation unit includes   *)
(* it: the include guard, the fifteen #include directives, the #endif.     *)
(***************************************************************************)
EXTENDS Naturals, Sequences, FiniteSets

\* How many times the translation unit includes the header.
MaxInclusions == 3
\* How many lines of its own the translation unit has around the inclusions.
MaxTULines == 2

VARIABLES
    variant,    \* which header the translation unit includes: "hw" is shim.h
    pc,         \* 0: in the translation unit; k >= 1: about to read line k of the header
    defined,    \* the macros that are defined
    defined0,   \* the macros that were defined before the translation unit's first line
    condStack,  \* the open conditional groups, innermost last
    pulled,     \* the headers named by the #include directives processed so far, in order
    emitted,    \* the non-blank text lines the header itself has contributed
    nIncl,      \* inclusions of the header started so far
    tuLines     \* lines of its own the translation unit has had processed

vars == <<variant, pc, defined, defined0, condStack, pulled, emitted, nIncl, tuLines>>

\* The include guard's macro (shim.h lines 1, 2 and 20).
Guard == "CFFmpeg_shim_h"

\* Macros the build may define before the header is read (a -D on the command
\* line, the compiler's platform macros).
Predefinable == {Guard, "__APPLE__"}

L(kind, arg) == [kind |-> kind, arg |-> arg]

\* shim.h with its guard's #define missing.
ShimLinesNoDefine ==
    << L("ifndef", "CFFmpeg_shim_h"),
       L("blank", ""),
       L("blank", ""),
       L("include", "libavformat/avformat.h"),
       L("include", "libavcodec/avcodec.h"),
       L("include", "libavutil/avutil.h"),
       L("include", "libavutil/opt.h"),
       L("include", "libavutil/channel_layout.h"),
       L("include", "libavutil/imgutils.h"),
       L("include", "libavutil/samplefmt.h"),
       L("include", "libavutil/mathematics.h"),
       L("include", "libavutil/error.h"),
       L("include", "libavutil/hwcontext.h"),
       L("include", "libavutil/hwcontext_videotoolbox.h"),
       L("include", "libswresample/swresample.h"),
       L("include", "libavfilter/avfilter.h"),
       L("include", "libavfilter/buffersrc.h"),
       L("include", "libavfilter/buffersink.h"),
       L("blank", ""),
       L("endif", ""),
       L("blank", "") >>

\* shim.h with the platform-specific header under a platform conditional.
ShimLinesPlatformGated ==
    << L("ifndef", "CFFmpeg_shim_h"),
       L("define", "CFFmpeg_shim_h"),
       L("blank", ""),
       L("include", "libavformat/avformat.h"),
       L("include", "libavcodec/avcodec.h"),
       L("include", "libavutil/avutil.h"),
       L("include", "libavutil/opt.h"),
       L("include", "libavutil/channel_layout.h"),
       L("include", "libavutil/imgutils.h"),
       L("include", "libavutil/samplefmt.h"),
       L("include", "libavutil/mathematics.h"),
       L("include", "libavutil/error.h"),
       L("include", "libavutil/hwcontext.h"),
       L("ifndef", "__APPLE__"),
       L("include", "libavutil/hwcontext_videotoolbox.h"),
       L("endif", ""),
       L("include", "libswresample/swresample.h"),
       L("include", "libavfilter/avfilter.h"),
       L("include", "libavfilter/buffersrc.h"),
       L("include", "libavfilter/buffersink.h"),
       L("blank", ""),
       L("endif", ""),
       L("blank", "") >>

\* shim.h with the resampling header moved above the hardware-context headers.
ShimLinesReordered ==
    << L("ifndef", "CFFmpeg_shim_h"),
       L("define", "CFFmpeg_shim_h"),
       L("blank", ""),
       L("include", "libavformat/avformat.h"),
       L("include", "libavcodec/avcodec.h"),
       L("include", "libavutil/avutil.h"),
       L("include", "libavutil/opt.h"),
       L("include", "libavutil/channel_layout.h"),
       L("include", "libavutil/imgutils.h"),
       L("include", "libavutil/samplefmt.h"),
       L("include", "libavutil/mathematics.h"),
       L("include", "libavutil/error.h"),
       L("include", "libswresample/swresample.h"),
       L("include", "libavutil/hwcontext.h"),
       L("include", "libavutil/hwcontext_videotoolbox.h"),
       L("include", "libavfilter/avfilter.h"),
       L("include", "libavfilter/buffersrc.h"),
       L("include", "libavfilter/buffersink.h"),
       L("blank", ""),
       L("endif", ""),
       L("blank", "") >>

\* shim.h with the two hardware-context headers apart: the resampling header
\* between them.
ShimLinesHwApart ==
    << L("ifndef", "CFFmpeg_shim_h"),
       L("define", "CFFmpeg_shim_h"),
       L("blank", ""),
       L("include", "libavformat/avformat.h"),
       L("include", "libavcodec/avcodec.h"),
       L("include", "libavutil/avutil.h"),
       L("include", "libavutil/opt.h"),
       L("include", "libavutil/channel_layout.h"),
       L("include", "libavutil/imgutils.h"),
       L("include", "libavutil/samplefmt.h"),
       L("include", "libavutil/mathematics.h"),
       L("include", "libavutil/error.h"),
       L("include", "libavutil/hwcontext.h"),
       L("include", "libswresample/swresample.h"),
       L("include", "libavutil/hwcontext_videotoolbox.h"),
       L("include", "libavfilter/avfilter.h"),
       L("include", "libavfilter/buffersrc.h"),
       L("include", "libavfilter/buffersink.h"),
       L("blank", ""),
       L("endif", ""),
       L("blank", "") >>

\* shim.h with a declaration of its own and a second macro.
ShimLinesOwnDecl ==
    << L("ifndef", "CFFmpeg_shim_h"),
       L("define", "CFFmpeg_shim_h"),
       L("define", "CFFMPEG_HAS_HWACCEL"),
       L("include", "libavformat/avformat.h"),
       L("include", "libavcodec/avcodec.h"),
       L("include", "libavutil/avutil.h"),
       L("include", "libavutil/opt.h"),
       L("include", "libavutil/channel_layout.h"),
       L("include", "libavutil/imgutils.h"),
       L("include", "libavutil/samplefmt.h"),
       L("include", "libavutil/mathematics.h"),
       L("include", "libavutil/error.h"),
       L("include", "libavutil/hwcontext.h"),
       L("include", "libavutil/hwcontext_videotoolbox.h"),
       L("include", "libswresample/swresample.h"),
       L("include", "libavfilter/avfilter.h"),
       L("include", "libavfilter/buffersrc.h"),
       L("include", "libavfilter/buffersink.h"),
       L("text", "static inline int cffmpeg_averror(int e) { return AVERROR(e); }"),
       L("endif", ""),
       L("blank", "") >>

\* The 21 lines of shim.h, one entry per line.
ShimLines ==
    << L("ifndef", "CFFmpeg_shim_h"),                       \*  1
       L("define", "CFFmpeg_shim_h"),                       \*  2
       L("blank", ""),                                      \*  3
       L("include", "libavformat/avformat.h"),              \*  4
       L("include", "libavcodec/avcodec.h"),                \*  5
       L("include", "libavutil/avutil.h"),                  \*  6
       L("include", "libavutil/opt.h"),                     \*  7
       L("include", "libavutil/channel_layout.h"),          \*  8
       L("include", "libavutil/imgutils.h"),                \*  9
       L("include", "libavutil/samplefmt.h"),               \* 10
       L("include", "libavutil/mathematics.h"),             \* 11
       L("include", "libavutil/error.h"),                   \* 12
       L("include", "libavutil/hwcontext.h"),               \* 13
       L("include", "libavutil/hwcontext_videotoolbox.h"),  \* 14
       L("include", "libswresample/swresample.h"),          \* 15
       L("include", "libavfilter/avfilter.h"),              \* 16
       L("include", "libavfilter/buffersrc.h"),             \* 17
       L("include", "libavfilter/buffersink.h"),            \* 18
       L("blank", ""),                                      \* 19
       L("endif", ""),                                      \* 20
       L("blank", "") >>                                    \* 21

\* The second header variant, the one without the hardware-acceleration
\* headers.  Its file is not among the sources; its lines are the declaration
\* groups section 6 of the specification lists, without the two it calls
\* optional, between the same guard.
OtherLines ==
    << L("ifndef", "CFFmpeg_shim_h"),
       L("define", "CFFmpeg_shim_h"),
       L("blank", ""),
       L("include", "libavformat/avformat.h"),
       L("include", "libavcodec/avcodec.h"),
       L("include", "libavutil/avutil.h"),
       L("include", "libavutil/opt.h"),
       L("include", "libavutil/channel_layout.h"),
       L("include", "libavutil/imgutils.h"),
       L("include", "libavutil/samplefmt.h"),
       L("include", "libavutil/mathematics.h"),
       L("include", "libavutil/error.h"),
       L("include", "libswresample/swresample.h"),
       L("include", "libavfilter/avfilter.h"),
       L("include", "libavfilter/buffersrc.h"),
       L("include", "libavfilter/buffersink.h"),
       L("blank", ""),
       L("endif", ""),
       L("blank", "") >>

\* The lines of the header the translation unit includes.
File == IF variant = "hw" THEN ShimLines ELSE OtherLines

\* Whether the preprocessor is processing lines rather than skipping them:
\* every open conditional group was taken.
Active == \A i \in 1..Len(condStack) : condStack[i].taken

TypeOK ==
    /\ variant \in {"hw", "plain"}
    /\ pc \in 0..(Len(File) + 1)
    /\ defined0 \subseteq Predefinable
    /\ nIncl \in 0..MaxInclusions
    /\ tuLines \in 0..MaxTULines

InitCommon ==
    /\ pc = 0
    /\ defined0 \in SUBSET Predefinable
    /\ defined = defined0
    /\ condStack = <<>>
    /\ pulled = <<>>
    /\ emitted = <<>>
    /\ nIncl = 0
    /\ tuLines = 0

Init == variant = "hw" /\ InitCommon

InitVariants == variant \in {"hw", "plain"} /\ InitCommon

\* The translation unit reaches an #include of the header: the preprocessor
\* enters the file at its first line.
TUInclude ==
    /\ pc = 0
    /\ nIncl < MaxInclusions
    /\ pc' = 1
    /\ nIncl' = nIncl + 1
    /\ UNCHANGED <<variant, defined, defined0, condStack, pulled, emitted, tuLines>>

\* The translation unit has a line of its own processed.
TUText ==
    /\ pc = 0
    /\ tuLines < MaxTULines
    /\ tuLines' = tuLines + 1
    /\ UNCHANGED <<variant, pc, defined, defined0, condStack, pulled, emitted, nIncl>>

\* The preprocessor processes the header's line pc.
ProcessLine ==
    /\ pc \in 1..Len(File)
    /\ LET line == File[pc] IN
        /\ line.kind = "endif" => Len(condStack) > 0
        /\ condStack' =
              IF line.kind = "ifndef"
              THEN Append(condStack,
                          [macro |-> line.arg,
                           taken |-> Active /\ line.arg \notin defined])
              ELSE IF line.kind = "endif"
              THEN SubSeq(condStack, 1, Len(condStack) - 1)
              ELSE condStack
        /\ defined' =
              IF line.kind = "define" /\ Active
              THEN defined \cup {line.arg}
              ELSE defined
        /\ pulled' =
              IF line.kind = "include" /\ Active
              THEN Append(pulled, line.arg)
              ELSE pulled
        /\ emitted' =
              IF line.kind = "text" /\ Active
              THEN Append(emitted, line.arg)
              ELSE emitted
    /\ pc' = pc + 1
    /\ UNCHANGED <<variant, defined0, nIncl, tuLines>>

\* The end of the header: the preprocessor returns to the translation unit.
EndOfFile ==
    /\ pc = Len(File) + 1
    /\ condStack = <<>>
    /\ pc' = 0
    /\ UNCHANGED <<variant, defined, defined0, condStack, pulled, emitted, nIncl, tuLines>>

Next == TUInclude \/ TUText \/ ProcessLine \/ EndOfFile

Spec == Init /\ [][Next]_vars

SpecVariants == InitVariants /\ [][Next]_vars

(***************************************************************************)
(* What the properties below speak of.                                     *)
(***************************************************************************)

Range(s) == {s[i] : i \in 1..Len(s)}

IsPrefix(s, t) == Len(s) <= Len(t) /\ SubSeq(t, 1, Len(s)) = s

\* How many times h occurs in s.
Occurrences(h, s) == Cardinality({i \in 1..Len(s) : s[i] = h})

KeepInclude(line) == line.kind = "include"

\* The headers a file's #include directives name, in the file's order.
Includes(lines) ==
    LET inc == SelectSeq(lines, KeepInclude)
    IN  [i \in 1..Len(inc) |-> inc[i].arg]

HwGeneric == "libavutil/hwcontext.h"
HwPlatform == "libavutil/hwcontext_videotoolbox.h"

NotHw(h) == h \notin {HwGeneric, HwPlatform}

\* The fifteen declaration groups, in the order the specification lists them.
ExpectedOrder ==
    << "libavformat/avformat.h",              \* container/format
       "libavcodec/avcodec.h",                \* codec
       "libavutil/avutil.h",                  \* generic utilities
       "libavutil/opt.h",                     \* option parsing
       "libavutil/channel_layout.h",          \* channel-layout description
       "libavutil/imgutils.h",                \* image-buffer utilities
       "libavutil/samplefmt.h",               \* sample-format description
       "libavutil/mathematics.h",             \* mathematical helpers
       "libavutil/error.h",                   \* error-code definitions
       "libavutil/hwcontext.h",               \* generic hardware-context
       "libavutil/hwcontext_videotoolbox.h",  \* platform-specific hardware-context
       "libswresample/swresample.h",          \* audio resampling
       "libavfilter/avfilter.h",              \* filter-graph construction
       "libavfilter/buffersrc.h",             \* filter-graph source
       "libavfilter/buffersink.h" >>          \* filter-graph sink

FifteenHeaders == Range(ExpectedOrder)

\* The guard macro was not defined before the translation unit began.
GuardFree == Guard \notin defined0

\* The first inclusion of the header has been processed to its end.
FirstDone == nIncl >= 1 /\ (pc = 0 \/ nIncl >= 2)

\* C1: once a translation unit in which CFFmpeg_shim_h was not defined has
\* included shim.h, every one of the fifteen named headers has been pulled in;
\* and whenever the preprocessor is at one of the header's #include lines, the
\* only conditional group open around it is the guard's.
C1_AllFifteenVisible ==
    /\ (GuardFree /\ FirstDone) => FifteenHeaders \subseteq Range(pulled)
    /\ (pc \in 1..Len(File) /\ File[pc].kind = "include") =>
           (Len(condStack) = 1 /\ condStack[1].macro = Guard)

C1_Witness ==
    /\ GuardFree /\ nIncl = 1 /\ pc = 0
    /\ HwPlatform \in Range(pulled)
    /\ Cardinality(Range(pulled)) = 15

\* C3: the #include directives of shim.h are processed in the listed order of
\* the fifteen groups: what has been pulled in is at every moment a prefix of
\* that list (no other header in between, none twice), and is the whole list
\* once the first inclusion is done.
C3_IncludeOrder ==
    GuardFree =>
        /\ IsPrefix(pulled, ExpectedOrder)
        /\ FirstDone => pulled = ExpectedOrder

C3_Witness ==
    /\ GuardFree /\ nIncl = 1 /\ pc = 19
    /\ Len(pulled) = 15
    /\ pulled[10] = HwGeneric /\ pulled[12] = "libswresample/swresample.h"

C5_OriginatesNothing ==
    /\ emitted = <<>>
    /\ defined \in {defined0, defined0 \cup {Guard}}
    /\ pc \in 1..Len(File) =>
           File[pc].kind \in {"ifndef", "define", "include", "endif", "blank"}
    /\ pc = Len(File) + 1 => condStack = <<>>

C5_Witness ==
    /\ nIncl = 1 /\ pc = Len(File) + 1
    /\ defined0 = {"__APPLE__"}
    /\ defined = {"__APPLE__", Guard}
    /\ Len(pulled) = 15

\* C6: inclusion is idempotent.  After any number n >= 1 of inclusions, at any
\* position among the translation unit's lines, each of the fifteen #include
\* directives has been processed exactly once; no step of a second or later
\* inclusion changes the defined macros, what was pulled in or what was
\* emitted; and CFFmpeg_shim_h, once defined, stays defined.
C6_Idempotent ==
    /\ [](GuardFree /\ FirstDone =>
             /\ Len(pulled) = 15
             /\ \A h \in FifteenHeaders : Occurrences(h, pulled) = 1
             /\ Guard \in defined)
    /\ [][(nIncl >= 2 /\ pc # 0) => UNCHANGED <<defined, pulled, emitted>>]_vars
    /\ [][(Guard \in defined) => (Guard \in defined')]_vars

C6_Witness ==
    /\ GuardFree /\ nIncl = 2 /\ pc = 20
    /\ ~Active
    /\ tuLines = 1
    /\ Len(pulled) = 15

====
